---- MODULE Spec2Model ----
(***************************************************************************)
(* Model of tddai: the retry-until-tests-pass loop of index.ts (current    *)
(* streaming variant) and of its earlier schema variant (unnamed/part_000),*)
(* the watcher callback, the git history the loop creates and squashes,    *)
(* and the delimited-section extraction of ai.ts.                          *)
(*                                                                         *)
(* Texts are sequences of one-character strings; offsets are 0-based as in *)
(* JavaScript.                                                             *)
(***************************************************************************)
EXTENDS Integers, Sequences, FiniteSets, TLC

\* ------------------------------------------------------------------ bounds
MaxSeqs == 2        \* attempt sequences started in one run
MaxFails == 2       \* failing test-runner invocations in one run
MaxPieces == 3       \* pieces concatenated into an extractor input text
MaxFencePieces == 4  \* pieces concatenated into a replacement source text

\* ------------------------------------------------------- string primitives
MinOf(S) == CHOOSE x \in S : \A y \in S : x <= y
MaxOf(S) == CHOOSE x \in S : \A y \in S : x >= y

\* String.prototype.indexOf / lastIndexOf: 0-based offset or -1
Occurrences(text, pat) ==
    {i \in 0..(Len(text) - Len(pat)) : SubSeq(text, i + 1, i + Len(pat)) = pat}
IndexOf(text, pat) ==
    IF Occurrences(text, pat) = {} THEN -1 ELSE MinOf(Occurrences(text, pat))
LastIndexOf(text, pat) ==
    IF Occurrences(text, pat) = {} THEN -1 ELSE MaxOf(Occurrences(text, pat))

\* String.prototype.substring: both arguments are clamped to [0, length]
\* and swapped when start > end
Clamp(i, n) == IF i < 0 THEN 0 ELSE IF i > n THEN n ELSE i
Substring(text, start, end) ==
    LET s == Clamp(start, Len(text))
        e == Clamp(end, Len(text))
        lo == IF s <= e THEN s ELSE e
        hi == IF s <= e THEN e ELSE s
    IN SubSeq(text, lo + 1, hi)

\* String.prototype.trimStart
WhiteSpace == {" ", "\n", "\t"}
RECURSIVE TrimStart(_)
TrimStart(text) ==
    IF text # <<>> /\ Head(text) \in WhiteSpace THEN TrimStart(Tail(text)) ELSE text

\* ------------------------------------------------------------ ai.ts markers
Tags == {"plan", "code", "commitMessage"}
TagName(tag) ==
    CASE tag = "plan" -> <<"p", "l", "a", "n">>
      [] tag = "code" -> <<"c", "o", "d", "e">>
      [] tag = "commitMessage" ->
            <<"c", "o", "m", "m", "i", "t", "M", "e", "s", "s", "a", "g", "e">>
      [] tag = "note" -> <<"n", "o", "t", "e">>
openTag(tag) == <<"<">> \o TagName(tag) \o <<">">>
closeTag(tag) == <<"<", "/">> \o TagName(tag) \o <<">">>

\* ai.ts extractXML: no check that either marker was found
extractXML(text, tag) ==
    LET start == IndexOf(text, openTag(tag)) + Len(openTag(tag))
        end == IndexOf(text, closeTag(tag))
    IN TrimStart(Substring(text, start, end))

\* ai.ts AIClient.getCommitMessage, the parsing of the response text
parseCommitMessage(response) ==
    LET start == IndexOf(response, openTag("commitMessage")) + Len(openTag("commitMessage"))
        end == LastIndexOf(response, openTag("commitMessage"))
    IN Substring(response, start, end)

\* index.ts step: the fenced-wrapper regex applied to the replacement source.
\* The pattern is the opener, a greedy any-character group, then the closer,
\* and it is not anchored: the group runs from the first opener to the last
\* closer after it; without a match the text is kept as it is.
BQ == "'"   \* stands for the backquote character of the fence
fenceOpen == <<BQ, BQ, BQ, "g", "o", "\n">>
fenceClose == <<"\n", BQ, BQ, BQ>>
stripFence_Anchored(text) ==
    IF /\ Len(text) >= Len(fenceOpen) + Len(fenceClose)
       /\ SubSeq(text, 1, Len(fenceOpen)) = fenceOpen
       /\ SubSeq(text, Len(text) - Len(fenceClose) + 1, Len(text)) = fenceClose
    THEN SubSeq(text, Len(fenceOpen) + 1, Len(text) - Len(fenceClose))
    ELSE text
stripFence(text) ==
    LET o == IndexOf(text, fenceOpen)
        c == LastIndexOf(text, fenceClose)
    IN IF o # -1 /\ c >= o + Len(fenceOpen)
       THEN SubSeq(text, o + Len(fenceOpen) + 1, c)
       ELSE text
\* ------------------------------------------------------------------- state
VARIABLES
    impl,                \* which loop is running: "index" (index.ts) or "part000"
    runningTestPromise,  \* 0 for null, else the sequence whose promise it holds
    started,             \* number of stepUntilTestsPass calls made so far
    seq,                 \* per call of stepUntilTestsPass: position and locals
    mainGo,              \* working tree: folder/main.go
    testGo,              \* working tree: folder/main_test.go
    index,               \* git staging area (a tree)
    commits,             \* git history, oldest first; the last one is HEAD
    nextId,              \* next commit id
    pending,             \* file names with an undelivered fs.watch event
    failures,            \* failing test-runner invocations so far in the run
    xText, xTag, xResult, xPc   \* extractor under test: input, output, position

vars == <<impl, runningTestPromise, started, seq, mainGo, testGo, index,
          commits, nextId, pending, failures, xText, xTag, xResult, xPc>>
loopVars == <<impl, runningTestPromise, started, seq, mainGo, testGo, index,
              commits, nextId, pending, failures>>
xVars == <<xText, xTag, xResult, xPc>>

Seqs == 1..MaxSeqs

\* ------------------------------------------------------------ file contents
CodeA == <<"A">>
CodeB == <<"B">>
Test1 == <<"1">>
Test2 == <<"2">>
TestContents == {Test1, Test2}
Tree(m, t) == [main |-> m, test |-> t]

\* --------------------------------------------------------------------- git
HeadId == IF commits = <<>> THEN 0 ELSE commits[Len(commits)].id
PosOf(ref) == CHOOSE k \in 1..Len(commits) : commits[k].id = ref
\* git log -p ref..HEAD: the commits reachable from HEAD and not from ref
LogRange(ref) == SubSeq(commits, PosOf(ref) + 1, Len(commits))
LogIds(ref) == [k \in 1..Len(LogRange(ref)) |-> LogRange(ref)[k].id]
\* git commit (without --allow-empty) refuses an empty message and an
\* index equal to the tree of HEAD
CanCommit(msg, hist) ==
    /\ TrimStart(msg) # <<>>
    /\ hist # <<>> => index # hist[Len(hist)].tree
Commit(kind, i) == [id |-> nextId, tree |-> index, kind |-> kind, by |-> i]

\* ------------------------------------------------------- provider responses
Section(tag, v) == openTag(tag) \o v \o closeTag(tag)
PlanP == <<"p">>
MsgM == <<"m">>
\* responses to a patch-generation request (delimited encoding)
Responses ==
    { Section("plan", PlanP) \o Section("code", CodeA) \o Section("commitMessage", MsgM),
      Section("plan", PlanP) \o Section("code", CodeB) \o Section("commitMessage", MsgM),
      Section("plan", PlanP) \o Section("code", CodeB) \o openTag("commitMessage") \o MsgM,
      Section("commitMessage", MsgM) \o Section("code", CodeB),
      Section("code", CodeB) \o Section("note", PlanP) \o Section("code", CodeA)
          \o Section("commitMessage", MsgM) \o Section("commitMessage", MsgM),
      <<>> }
\* responses to a summary request (delimited encoding)
CommitResponses ==
    { Section("commitMessage", MsgM), <<"n", "o">>, <<>> }
\* message.parsed of the schema encoding: null (ok is FALSE) or the validated object
NullParsed == [ok |-> FALSE, code |-> <<>>, commit_message |-> <<>>]
ParsedPatches ==
    {NullParsed} \cup {[ok |-> TRUE, code |-> c, commit_message |-> MsgM] : c \in {CodeA, CodeB}}
ParsedSummaries == {NullParsed, [ok |-> TRUE, code |-> <<>>, commit_message |-> MsgM]}
UpdateCode == <<"U", "p", "d", "a", "t", "e", " ", "c", "o", "d", "e">>

\* both markers of the section are in the text, the close after the open
HasSection(text, tag) ==
    /\ IndexOf(text, openTag(tag)) # -1
    /\ \E c \in Occurrences(text, closeTag(tag)) :
          c >= IndexOf(text, openTag(tag)) + Len(openTag(tag))

\* names a section of the stream can carry: the three the consumer knows and
\* one it does not
StreamNames == Tags \cup {"note"}
Repeats(response) ==
    \E t \in StreamNames : Cardinality(Occurrences(response, closeTag(t))) > 1

\* the section stream of getNewCode: one (name, text) pair per section whose
\* close marker is in the response, in the order of the close markers
RECURSIVE streamOf(_, _)
streamOf(response, tags) ==
    IF tags = {} THEN <<>>
    ELSE LET t == CHOOSE x \in tags : \A y \in tags :
                      IndexOf(response, closeTag(x)) <= IndexOf(response, closeTag(y))
         IN <<[name |-> t, text |-> extractXML(response, t)]>>
            \o streamOf(response, tags \ {t})
getNewCode(response) ==
    streamOf(response, {t \in StreamNames : IndexOf(response, closeTag(t)) # -1})
\* -------------------------------------------------------------------- Init
NoSeq ==
    [pc |-> "none", gitRef |-> 0, mainFileText |-> <<>>, testFileText |-> <<>>,
     gitLog |-> <<>>, stream |-> <<>>, parsed |-> NullParsed, commitMsg |-> <<>>,
     \* observations of the call, for the properties
     runs |-> 0, fails |-> 0, firstExit |-> -1, requests |-> 0, writes |-> 0,
     attempts |-> 0, malformed |-> FALSE, mainBefore |-> <<>>,
     logNonEmpty |-> FALSE, noSummary |-> FALSE, resetDone |-> FALSE,
     droppedEvent |-> FALSE, lastExit |-> -1, swallowed |-> FALSE,
     \* change of main_test.go made while in flight and not yet run against:
     \* "none", made in "running" or in "committing", or "tested" since
     untested |-> "none",
     \* testCmd.text() as the number of the test run that printed it, what
     \* the last request carried, writes and commits since the last request
     errors |-> 0, sent |-> [errors |-> 0, gitLog |-> <<>>],
     iterWrites |-> 0, iterCommits |-> 0, summaries |-> 0,
     \* the response of the last request repeats a section, sections of it
     \* that matched no case
     repeated |-> FALSE, others |-> 0]

Base == [id |-> 1, tree |-> Tree(CodeA, Test1), kind |-> "base", by |-> 0]

LoopInit ==
    /\ impl \in {"index", "part000"}
    /\ runningTestPromise = 0
    /\ started = 0
    /\ seq = [i \in Seqs |-> NoSeq]
    /\ mainGo = CodeA
    /\ testGo \in TestContents
    /\ index = Tree(CodeA, Test1)
    /\ commits \in {<<>>, <<Base>>}     \* git init of a fresh or an existing repository
    /\ nextId = 2
    /\ pending = {}
    /\ failures = 0

Init ==
    /\ LoopInit
    /\ xText = <<>> /\ xTag = "plan" /\ xResult = <<>> /\ xPc = "off"

\* ----------------------------------------------------------------- actions
\* step returned: its locals are gone
StepReturned(r, to) ==
    [r EXCEPT !.pc = to, !.mainFileText = <<>>, !.testFileText = <<>>,
              !.gitLog = <<>>, !.stream = <<>>, !.parsed = NullParsed,
              !.errors = 0, !.sent = [errors |-> 0, gitLog |-> <<>>],
              !.iterWrites = 0, !.iterCommits = 0, !.repeated = FALSE, !.others = 0]

\* a call of stepUntilTestsPass runs synchronously to its first await and
\* its promise is assigned to the flag by the caller; the frame of a call
\* that returned is gone
StartSeq ==
    /\ started < MaxSeqs
    /\ started' = started + 1
    /\ runningTestPromise' = started + 1
    /\ seq' = [j \in Seqs |->
                IF j = started + 1 THEN [NoSeq EXCEPT !.pc = "revparse"]
                ELSE IF seq[j].pc = "done" THEN [NoSeq EXCEPT !.pc = "done"]
                ELSE seq[j]]

\* main: registers the watcher and starts the first sequence
main ==
    /\ started = 0
    /\ StartSeq
    /\ UNCHANGED <<impl, mainGo, testGo, index, commits, nextId, pending, failures>>
    /\ UNCHANGED xVars

\* the user saves main_test.go; the watcher, once registered, is notified
EditTest ==
    /\ \E t \in TestContents \ {testGo} : testGo' = t
    /\ pending' = IF started >= 1 THEN pending \cup {"main_test.go"} ELSE pending
    /\ seq' = [j \in Seqs |->
                IF seq[j].pc \in {"none", "done", "failed"} \/ seq[j].untested = "running"
                THEN seq[j]
                ELSE [seq[j] EXCEPT !.untested =
                         IF seq[j].pc \in {"sqlog", "sqmsg", "sqreset"}
                         THEN "committing" ELSE "running"]]
    /\ UNCHANGED <<impl, runningTestPromise, started, mainGo, index, commits,
                   nextId, failures>>
    /\ UNCHANGED xVars

\* faulty variant of the watch callback: the flag is not looked at
WatchCallback_Unguarded(filename) ==
    /\ filename \in pending
    /\ pending' = pending \ {filename}
    /\ IF filename = "main_test.go"
       THEN StartSeq
       ELSE UNCHANGED <<runningTestPromise, started, seq>>
    /\ UNCHANGED <<impl, mainGo, testGo, index, commits, nextId, failures>>
    /\ UNCHANGED xVars
\* the watch callback, run between two awaits of the loop
WatchCallback(filename) ==
    /\ filename \in pending
    /\ pending' = pending \ {filename}
    /\ IF filename = "main_test.go"
       THEN IF runningTestPromise = 0
            THEN StartSeq
            ELSE /\ seq' = [seq EXCEPT ![runningTestPromise].droppedEvent = TRUE]
                 /\ UNCHANGED <<runningTestPromise, started>>
       ELSE UNCHANGED <<runningTestPromise, started, seq>>
    /\ UNCHANGED <<impl, mainGo, testGo, index, commits, nextId, failures>>
    /\ UNCHANGED xVars

\* git rev-parse HEAD: throws in a repository without a commit
RevParse(i) ==
    /\ seq[i].pc = "revparse"
    /\ IF commits = <<>>
       THEN seq' = [seq EXCEPT ![i].pc = "failed"]
       ELSE seq' = [seq EXCEPT ![i].pc = "readMain", ![i].gitRef = HeadId]
    /\ UNCHANGED <<impl, runningTestPromise, started, mainGo, testGo, index,
                   commits, nextId, pending, failures>>
    /\ UNCHANGED xVars

ReadMain(i) ==
    /\ seq[i].pc = "readMain"
    /\ seq' = [seq EXCEPT ![i].pc = "readTest", ![i].mainFileText = mainGo]
    /\ UNCHANGED <<impl, runningTestPromise, started, mainGo, testGo, index,
                   commits, nextId, pending, failures>>
    /\ UNCHANGED xVars

ReadTest(i) ==
    /\ seq[i].pc = "readTest"
    /\ seq' = [seq EXCEPT ![i].pc = "test", ![i].testFileText = testGo]
    /\ UNCHANGED <<impl, runningTestPromise, started, mainGo, testGo, index,
                   commits, nextId, pending, failures>>
    /\ UNCHANGED xVars

\* go test has run against main_test.go as it is in the folder
Tested(u) == IF u = "running" THEN "tested" ELSE u

\* faulty variant of the test run: the exit code is not looked at
RunTests_IgnoreExit(i) ==
    /\ seq[i].pc = "test"
    /\ failures < MaxFails
    /\ \E exitCode \in {0, 1} :
         seq' = [seq EXCEPT ![i].pc = "gitlog",
                            ![i].runs = @ + 1,
                            ![i].fails = @ + 1,
                            ![i].errors = seq[i].runs + 1,
                            ![i].lastExit = exitCode,
                            ![i].untested = Tested(@),
                            ![i].firstExit = IF seq[i].runs = 0 THEN exitCode ELSE @]
    /\ failures' = failures + 1
    /\ UNCHANGED <<impl, runningTestPromise, started, mainGo, testGo, index,
                   commits, nextId, pending>>
    /\ UNCHANGED xVars
\* faulty variant of the test run: the tests run against the text read
\* before, not against the file in the folder
RunTests_Snapshot(i) ==
    /\ seq[i].pc = "test"
    /\ \E exitCode \in {0, 1} :
         IF exitCode = 0
         THEN /\ seq' = [seq EXCEPT ![i] = [StepReturned(@, "sqlog") EXCEPT
                                                 !.runs = @ + 1,
                                                 !.lastExit = 0,
                                                 !.untested = IF seq[i].testFileText = testGo THEN Tested(@) ELSE @,
                                                 !.firstExit = IF seq[i].runs = 0 THEN 0 ELSE @]]
              /\ UNCHANGED failures
         ELSE /\ failures < MaxFails
              /\ seq' = [seq EXCEPT ![i].pc = "gitlog",
                                     ![i].runs = @ + 1,
                                     ![i].fails = @ + 1,
                                     ![i].errors = seq[i].runs + 1,
                                     ![i].lastExit = exitCode,
                                     ![i].untested = IF seq[i].testFileText = testGo THEN Tested(@) ELSE @,
                                     ![i].firstExit = IF seq[i].runs = 0 THEN exitCode ELSE @]
              /\ failures' = failures + 1
    /\ UNCHANGED <<impl, runningTestPromise, started, mainGo, testGo, index,
                   commits, nextId, pending>>
    /\ UNCHANGED xVars
\* go mod tidy && go test, nothrow: exit code 0 returns true from step
RunTests(i) ==
    /\ seq[i].pc = "test"
    /\ \E exitCode \in {0, 1} :
         IF exitCode = 0
         THEN /\ seq' = [seq EXCEPT ![i] = [StepReturned(@, "sqlog") EXCEPT
                                                 !.runs = @ + 1,
                                                 !.lastExit = 0,
                                                 !.untested = Tested(@),
                                                 !.firstExit = IF seq[i].runs = 0 THEN 0 ELSE @]]
              /\ UNCHANGED failures
         ELSE /\ failures < MaxFails
              /\ seq' = [seq EXCEPT ![i].pc = "gitlog",
                                     ![i].runs = @ + 1,
                                     ![i].fails = @ + 1,
                                     ![i].errors = seq[i].runs + 1,
                                     ![i].lastExit = exitCode,
                                     ![i].untested = Tested(@),
                                     ![i].firstExit = IF seq[i].runs = 0 THEN exitCode ELSE @]
              /\ failures' = failures + 1
    /\ UNCHANGED <<impl, runningTestPromise, started, mainGo, testGo, index,
                   commits, nextId, pending>>
    /\ UNCHANGED xVars

\* faulty variant of the log: the range starts at HEAD, not at the boundary
GitLog_FromHead(i) ==
    /\ seq[i].pc = "gitlog"
    /\ seq' = [seq EXCEPT ![i].pc = "request",
                           ![i].gitLog = LogIds(HeadId)]
    /\ UNCHANGED <<impl, runningTestPromise, started, mainGo, testGo, index,
                   commits, nextId, pending, failures>>
    /\ UNCHANGED xVars
\* git log -p gitRefStart..HEAD in step
GitLog(i) ==
    /\ seq[i].pc = "gitlog"
    /\ seq' = [seq EXCEPT ![i].pc = "request",
                           ![i].gitLog = LogIds(seq[i].gitRef)]
    /\ UNCHANGED <<impl, runningTestPromise, started, mainGo, testGo, index,
                   commits, nextId, pending, failures>>
    /\ UNCHANGED xVars
Frame_Seq == UNCHANGED <<impl, runningTestPromise, started, mainGo, testGo, index,
                         commits, nextId, pending, failures>>

\* a section of the response lacks one of its markers
Malformed(response) == \E t \in Tags : ~HasSection(response, t)

\* index.ts step: the patch-generation request; the response arrives as a
\* section stream
Request(i) ==
    /\ impl = "index"
    /\ seq[i].pc = "request"
    /\ \E response \in Responses :
         seq' = [seq EXCEPT ![i].pc = "consume",
                            ![i].stream = getNewCode(response),
                            ![i].requests = @ + 1,
                            ![i].sent = [errors |-> seq[i].errors, gitLog |-> seq[i].gitLog],
                            ![i].iterWrites = 0,
                            ![i].iterCommits = 0,
                            ![i].repeated = Repeats(response),
                            ![i].mainBefore = mainGo,
                            ![i].malformed = @ \/ Malformed(response)]
    /\ Frame_Seq
    /\ UNCHANGED xVars

\* the provider call throws (unreachable, rate limit, unexpected content type)
ProviderError(i) ==
    /\ seq[i].pc \in {"request", "sqmsg"}
    /\ seq' = [seq EXCEPT ![i].pc = "failed"]
    /\ Frame_Seq
    /\ UNCHANGED xVars

\* a git command run without nothrow exits non-zero and the shell call throws:
\* git log in step and in stepUntilTestsPass, git add / git commit in step
GitError(i) ==
    /\ \/ seq[i].pc \in {"gitlog", "sqlog", "p0commit"}
       \/ /\ seq[i].pc = "consume"
          /\ seq[i].stream # <<>>
          /\ Head(seq[i].stream).name = "commitMessage"
    /\ seq' = [seq EXCEPT ![i].pc = "failed"]
    /\ Frame_Seq
    /\ UNCHANGED xVars

\* index.ts step, for await: case "plan"
StepPlan(i) ==
    /\ seq[i].pc = "consume"
    /\ seq[i].stream # <<>>
    /\ Head(seq[i].stream).name = "plan"
    /\ seq' = [seq EXCEPT ![i].stream = Tail(@)]
    /\ Frame_Seq
    /\ UNCHANGED xVars

\* faulty variant of the switch: a default case that throws
StepOther_Abort(i) ==
    /\ seq[i].pc = "consume"
    /\ seq[i].stream # <<>>
    /\ Head(seq[i].stream).name \notin Tags
    /\ seq' = [seq EXCEPT ![i].pc = "failed"]
    /\ Frame_Seq
    /\ UNCHANGED xVars
\* index.ts step, for await: the switch has no case for the name and no
\* default, the loop goes on to the next section
StepOther(i) ==
    /\ seq[i].pc = "consume"
    /\ seq[i].stream # <<>>
    /\ Head(seq[i].stream).name \notin Tags
    /\ seq' = [seq EXCEPT ![i].stream = Tail(@), ![i].others = @ + 1]
    /\ Frame_Seq
    /\ UNCHANGED xVars

\* index.ts step, for await: case "code"
StepCode(i) ==
    /\ seq[i].pc = "consume"
    /\ seq[i].stream # <<>>
    /\ Head(seq[i].stream).name = "code"
    /\ mainGo' = stripFence(Head(seq[i].stream).text)
    /\ pending' = pending \cup {"main.go"}
    /\ seq' = [seq EXCEPT ![i].stream = Tail(@), ![i].writes = @ + 1,
                           ![i].iterWrites = @ + 1]
    /\ UNCHANGED <<impl, runningTestPromise, started, testGo, index, commits, nextId, failures>>
    /\ UNCHANGED xVars

\* git add . && git commit --allow-empty -m <JSON of the message>
AttemptCommit(i) ==
    /\ index' = Tree(mainGo, testGo)
    /\ commits' = Append(commits, [id |-> nextId, tree |-> Tree(mainGo, testGo),
                                    kind |-> "attempt", by |-> i])
    /\ nextId' = nextId + 1

\* index.ts step, for await: case "commitMessage"
StepCommit(i) ==
    /\ seq[i].pc = "consume"
    /\ seq[i].stream # <<>>
    /\ Head(seq[i].stream).name = "commitMessage"
    /\ AttemptCommit(i)
    /\ seq' = [seq EXCEPT ![i].stream = Tail(@), ![i].attempts = @ + 1,
                           ![i].iterCommits = @ + 1]
    /\ UNCHANGED <<impl, runningTestPromise, started, mainGo, testGo, pending, failures>>
    /\ UNCHANGED xVars

\* faulty variant of the loop: it is left after a step that returned false
StepReturnFalse_Break(i) ==
    /\ seq[i].pc = "consume"
    /\ seq[i].stream = <<>>
    /\ seq' = [seq EXCEPT ![i] = StepReturned(@, "sqlog")]
    /\ Frame_Seq
    /\ UNCHANGED xVars
\* index.ts step: the stream is exhausted, step returns false and the loop
\* of stepUntilTestsPass calls step again
StepReturnFalse(i) ==
    /\ seq[i].pc = "consume"
    /\ seq[i].stream = <<>>
    /\ seq' = [seq EXCEPT ![i] = StepReturned(@, "readMain")]
    /\ Frame_Seq
    /\ UNCHANGED xVars

\* part_000 step: the patch-generation request with a response schema; without
\* a parsed result step returns false
P0Request(i) ==
    /\ impl = "part000"
    /\ seq[i].pc = "request"
    /\ \E resp \in ParsedPatches :
         IF ~resp.ok
         THEN seq' = [seq EXCEPT ![i] = [StepReturned(@, "readMain") EXCEPT
                                                !.requests = @ + 1,
                                                !.mainBefore = mainGo,
                                                !.malformed = TRUE]]
         ELSE seq' = [seq EXCEPT ![i].pc = "p0write",
                                 ![i].parsed = resp,
                                 ![i].requests = @ + 1,
                                 ![i].sent = [errors |-> seq[i].errors,
                                              gitLog |-> seq[i].gitLog],
                                 ![i].mainBefore = mainGo]
    /\ Frame_Seq
    /\ UNCHANGED xVars

\* part_000 step: write resp.code to main.go
P0Write(i) ==
    /\ seq[i].pc = "p0write"
    /\ mainGo' = stripFence(seq[i].parsed.code)
    /\ pending' = pending \cup {"main.go"}
    /\ seq' = [seq EXCEPT ![i].pc = "p0commit", ![i].writes = @ + 1,
                           ![i].iterWrites = @ + 1]
    /\ UNCHANGED <<impl, runningTestPromise, started, testGo, index, commits, nextId, failures>>
    /\ UNCHANGED xVars

\* part_000 step: commit, then return false
P0Commit(i) ==
    /\ seq[i].pc = "p0commit"
    /\ AttemptCommit(i)
    /\ seq' = [seq EXCEPT ![i] = [StepReturned(@, "readMain") EXCEPT !.attempts = @ + 1]]
    /\ UNCHANGED <<impl, runningTestPromise, started, mainGo, testGo, pending, failures>>
    /\ UNCHANGED xVars

\* faulty variant of the squash check: the empty-log path leaves the flag set
SquashLog_KeepFlag(i) ==
    /\ impl = "index"
    /\ seq[i].pc = "sqlog"
    /\ IF LogRange(seq[i].gitRef) # <<>>
       THEN /\ seq' = [seq EXCEPT ![i].pc = "sqmsg",
                                   ![i].gitLog = LogIds(seq[i].gitRef),
                                   ![i].logNonEmpty = TRUE]
            /\ UNCHANGED runningTestPromise
       ELSE /\ seq' = [seq EXCEPT ![i].pc = "done",
                                   ![i].gitLog = <<>>]
            /\ UNCHANGED runningTestPromise
    /\ UNCHANGED <<impl, started, mainGo, testGo, index, commits, nextId, pending, failures>>
    /\ UNCHANGED xVars
\* index.ts stepUntilTestsPass: git log -p gitRef..HEAD; an empty log goes
\* straight to "Done!" and clears the flag
SquashLog(i) ==
    /\ impl = "index"
    /\ seq[i].pc = "sqlog"
    /\ IF LogRange(seq[i].gitRef) # <<>>
       THEN /\ seq' = [seq EXCEPT ![i].pc = "sqmsg",
                                   ![i].gitLog = LogIds(seq[i].gitRef),
                                   ![i].logNonEmpty = TRUE]
            /\ UNCHANGED runningTestPromise
       ELSE /\ seq' = [seq EXCEPT ![i].pc = "done",
                                   ![i].gitLog = <<>>]
            /\ runningTestPromise' = 0
    /\ UNCHANGED <<impl, started, mainGo, testGo, index, commits, nextId, pending, failures>>
    /\ UNCHANGED xVars

\* part_000 stepUntilTestsPass: git log -p gitRef..HEAD, no emptiness test
P0SquashLog(i) ==
    /\ impl = "part000"
    /\ seq[i].pc = "sqlog"
    /\ seq' = [seq EXCEPT ![i].pc = "sqmsg",
                           ![i].gitLog = LogIds(seq[i].gitRef),
                           ![i].logNonEmpty = LogRange(seq[i].gitRef) # <<>>]
    /\ Frame_Seq
    /\ UNCHANGED xVars

\* index.ts: aiClient.getCommitMessage(gitLog)
SquashMsg(i) ==
    /\ impl = "index"
    /\ seq[i].pc = "sqmsg"
    /\ \E response \in CommitResponses :
         seq' = [seq EXCEPT ![i].pc = "sqreset",
                            ![i].summaries = @ + 1,
                            ![i].commitMsg = parseCommitMessage(response),
                            ![i].noSummary = ~HasSection(response, "commitMessage")]
    /\ Frame_Seq
    /\ UNCHANGED xVars

\* part_000: parsed?.commit_message ?? "Update code"
P0SquashMsg(i) ==
    /\ impl = "part000"
    /\ seq[i].pc = "sqmsg"
    /\ \E parsed \in ParsedSummaries :
         seq' = [seq EXCEPT ![i].pc = "sqreset",
                            ![i].summaries = @ + 1,
                            ![i].commitMsg = IF parsed.ok THEN parsed.commit_message
                                                         ELSE UpdateCode,
                            ![i].noSummary = ~parsed.ok]
    /\ Frame_Seq
    /\ UNCHANGED xVars

\* faulty variant of the squash: the reset goes to the root commit
SquashCommit_ToRoot(i) ==
    /\ seq[i].pc = "sqreset"
    /\ LET kept == SubSeq(commits, 1, 1)
           made == CanCommit(seq[i].commitMsg, kept)
       IN /\ commits' = IF made THEN Append(kept, Commit("squash", i)) ELSE kept
          /\ nextId' = IF made THEN nextId + 1 ELSE nextId
          /\ seq' = [seq EXCEPT ![i].pc = "done",
                                 ![i].resetDone = TRUE,
                                 ![i].swallowed = ~made]
    /\ runningTestPromise' = 0
    /\ UNCHANGED <<impl, started, mainGo, testGo, index, pending, failures>>
    /\ UNCHANGED xVars
\* faulty variant of the squash: the flag is not cleared at the end
SquashCommit_KeepFlag(i) ==
    /\ seq[i].pc = "sqreset"
    /\ LET kept == SubSeq(commits, 1, PosOf(seq[i].gitRef))
           made == CanCommit(seq[i].commitMsg, kept)
       IN /\ commits' = IF made THEN Append(kept, Commit("squash", i)) ELSE kept
          /\ nextId' = IF made THEN nextId + 1 ELSE nextId
          /\ seq' = [seq EXCEPT ![i].pc = "done",
                                 ![i].resetDone = TRUE,
                                 ![i].swallowed = ~made]
    /\ UNCHANGED runningTestPromise
    /\ UNCHANGED <<impl, started, mainGo, testGo, index, pending, failures>>
    /\ UNCHANGED xVars
\* faulty variant of the squash: a dropped change event restarts the loop
SquashCommit_Requeue(i) ==
    /\ seq[i].pc = "sqreset"
    /\ LET kept == SubSeq(commits, 1, PosOf(seq[i].gitRef))
           made == CanCommit(seq[i].commitMsg, kept)
       IN /\ commits' = IF made THEN Append(kept, Commit("squash", i)) ELSE kept
          /\ nextId' = IF made THEN nextId + 1 ELSE nextId
    /\ IF seq[i].droppedEvent /\ started < MaxSeqs
       THEN /\ runningTestPromise' = started + 1
            /\ started' = started + 1
            /\ seq' = [seq EXCEPT ![i].pc = "done",
                                   ![i].resetDone = TRUE,
                                   ![started + 1].pc = "revparse"]
       ELSE /\ runningTestPromise' = 0
            /\ UNCHANGED started
            /\ seq' = [seq EXCEPT ![i].pc = "done",
                                   ![i].resetDone = TRUE]
    /\ UNCHANGED <<impl, mainGo, testGo, index, pending, failures>>
    /\ UNCHANGED xVars
\* git reset --soft gitRef && git commit -m commitMsg, nothrow; then the
\* flag is cleared
SquashCommit(i) ==
    /\ seq[i].pc = "sqreset"
    /\ LET kept == SubSeq(commits, 1, PosOf(seq[i].gitRef))
           made == CanCommit(seq[i].commitMsg, kept)
       IN /\ commits' = IF made THEN Append(kept, Commit("squash", i)) ELSE kept
          /\ nextId' = IF made THEN nextId + 1 ELSE nextId
          /\ seq' = [seq EXCEPT ![i].pc = "done",
                                 ![i].resetDone = TRUE,
                                 ![i].swallowed = ~made]
    /\ runningTestPromise' = 0
    /\ UNCHANGED <<impl, started, mainGo, testGo, index, pending, failures>>
    /\ UNCHANGED xVars

Next ==
    \/ main
    \/ EditTest
    \/ \E filename \in {"main_test.go", "main.go"} : WatchCallback(filename)
    \/ \E i \in Seqs :
         \/ RevParse(i) \/ ReadMain(i) \/ ReadTest(i) \/ RunTests(i) \/ GitLog(i)
         \/ Request(i) \/ ProviderError(i) \/ GitError(i)
         \/ StepPlan(i) \/ StepOther(i) \/ StepCode(i) \/ StepCommit(i)
         \/ StepReturnFalse(i)
         \/ P0Request(i) \/ P0Write(i) \/ P0Commit(i)
         \/ SquashLog(i) \/ P0SquashLog(i) \/ SquashMsg(i) \/ P0SquashMsg(i)
         \/ SquashCommit(i)

Spec == Init /\ [][Next]_vars

\* the steps of the sequences: continuations of awaited calls, which the
\* event loop runs once the call has returned
SeqStep ==
    \E i \in Seqs :
         \/ RevParse(i) \/ ReadMain(i) \/ ReadTest(i) \/ RunTests(i) \/ GitLog(i)
         \/ Request(i) \/ ProviderError(i) \/ GitError(i)
         \/ StepPlan(i) \/ StepOther(i) \/ StepCode(i) \/ StepCommit(i)
         \/ StepReturnFalse(i)
         \/ P0Request(i) \/ P0Write(i) \/ P0Commit(i)
         \/ SquashLog(i) \/ P0SquashLog(i) \/ SquashMsg(i) \/ P0SquashMsg(i)
         \/ SquashCommit(i)
\* every awaited call returns and its continuation is run
SpecLive == Init /\ [][Next]_vars /\ WF_vars(SeqStep)
\* ---------------------------------------------- the extractor on its own
Pieces ==
    { openTag("plan"), closeTag("plan"),
      openTag("commitMessage"), closeTag("commitMessage"),
      <<" ">>, <<"x">> }
RECURSIVE TextsOfLen(_)
TextsOfLen(n) ==
    IF n = 0 THEN {<<>>}
    ELSE {piece \o t : piece \in Pieces, t \in TextsOfLen(n - 1)}
Texts == UNION {TextsOfLen(n) : n \in 0..MaxPieces}

InitExtract ==
    /\ impl = "index" /\ runningTestPromise = 0 /\ started = 0
    /\ seq = [i \in Seqs |-> NoSeq]
    /\ mainGo = CodeA /\ testGo = Test1 /\ index = Tree(CodeA, Test1)
    /\ commits = <<Base>> /\ nextId = 2 /\ pending = {} /\ failures = 0
    /\ xText \in Texts
    /\ xTag \in {"plan", "commitMessage"}
    /\ xResult = <<>>
    /\ xPc = "input"

\* getNewCode applies extractXML to the response text
ApplyExtractXML ==
    /\ xPc = "input"
    /\ xResult' = extractXML(xText, xTag)
    /\ xPc' = "extractXML"
    /\ UNCHANGED <<xText, xTag>>
    /\ UNCHANGED loopVars

\* getCommitMessage cuts the message out of the response text
ApplyGetCommitMessage ==
    /\ xPc = "input"
    /\ xTag = "commitMessage"
    /\ xResult' = parseCommitMessage(xText)
    /\ xPc' = "getCommitMessage"
    /\ UNCHANGED <<xText, xTag>>
    /\ UNCHANGED loopVars

NextExtract == ApplyExtractXML \/ ApplyGetCommitMessage
SpecExtract == InitExtract /\ [][NextExtract]_vars
\* ------------------------------------------------------------- properties
\* ------------------------------------------ the fence pattern on its own
FencePieces == {fenceOpen, fenceClose, <<"X">>, <<"\n">>}
RECURSIVE FenceTextsOfLen(_)
FenceTextsOfLen(n) ==
    IF n = 0 THEN {<<>>}
    ELSE {piece \o t : piece \in FencePieces, t \in FenceTextsOfLen(n - 1)}
FenceTexts == UNION {FenceTextsOfLen(n) : n \in 0..MaxFencePieces}

InitFence ==
    /\ impl = "index" /\ runningTestPromise = 0 /\ started = 0
    /\ seq = [i \in Seqs |-> NoSeq]
    /\ mainGo = CodeA /\ testGo = Test1 /\ index = Tree(CodeA, Test1)
    /\ commits = <<Base>> /\ nextId = 2 /\ pending = {} /\ failures = 0
    /\ xText \in FenceTexts
    /\ xTag = "code"
    /\ xResult = <<>>
    /\ xPc = "input"

\* step applies the pattern to the replacement source before writing it
ApplyStripFence ==
    /\ xPc = "input"
    /\ xResult' = stripFence(xText)
    /\ xPc' = "stripFence"
    /\ UNCHANGED <<xText, xTag>>
    /\ UNCHANGED loopVars

NextFence == ApplyStripFence
SpecFence == InitFence /\ [][NextFence]_vars

InFlight(i) == seq[i].pc \notin {"none", "done", "failed"}
Squashing(i) == seq[i].pc \in {"sqlog", "sqmsg", "sqreset", "done"}
\* the step is a run of the watch callback for main_test.go
TestChangeObserved ==
    "main_test.go" \in pending /\ pending' = pending \ {"main_test.go"}

\* C1: once the first test run of a sequence has succeeded, the commits the
\* loop created in Running are as many as the failing test runs before it.
C1_CommitsEqualFailures ==
    \A i \in Seqs :
        (Squashing(i) /\ seq[i].runs > 0) => seq[i].attempts = seq[i].fails

\* C2: at most one attempt sequence is executing at any time, and it is the
\* one whose promise the flag holds.
C2_AtMostOneSequence ==
    /\ Cardinality({i \in Seqs : InFlight(i)}) <= 1
    /\ \A i \in Seqs : InFlight(i) => runningTestPromise = i
C2_Witness ==
    /\ seq[1].pc = "done"
    /\ seq[2].pc = "consume"
    /\ "main_test.go" \in pending

\* C3: when Committing has completed, boundary..HEAD holds exactly one commit
\* if the change log was non-empty and none if it was empty.
C3_SquashExactlyOne ==
    \A i \in Seqs :
        (seq[i].pc = "done" /\ seq[i].gitRef # 0) =>
            Len(LogRange(seq[i].gitRef)) = IF seq[i].logNonEmpty THEN 1 ELSE 0

\* C4: a sequence whose first test run succeeds makes no patch-generation
\* request, no write of main.go and no attempt commit, and is in the squash
\* check or past it.
C4_FirstPassNoPatch ==
    \A i \in Seqs :
        seq[i].firstExit = 0 =>
            /\ seq[i].requests = 0 /\ seq[i].writes = 0 /\ seq[i].attempts = 0
            /\ seq[i].fails = 0 /\ seq[i].runs = 1
            /\ Squashing(i) \/ seq[i].pc = "failed"
C4_Witness ==
    \E i \in Seqs : seq[i].firstExit = 0 /\ seq[i].pc = "done" /\ runningTestPromise = 0

\* C5: a summary response without an extractable commit message, for a
\* non-empty change log, is followed by no soft reset and no commit: the
\* attempt commits stay in the history.
C5_NoSummaryNoReset ==
    \A i \in Seqs :
        (seq[i].noSummary /\ seq[i].logNonEmpty) =>
            /\ ~seq[i].resetDone
            /\ seq[i].pc \in {"sqreset", "failed"}
            /\ LogIds(seq[i].gitRef) = seq[i].gitLog

\* C6: after a patch response that lacks a required field the sequence has
\* failed (it runs no further iteration) and main.go is as it was before the
\* request.
C6_MalformedAborts ==
    \A i \in Seqs :
        (seq[i].malformed /\ seq[i].pc # "consume") =>
            seq[i].pc = "failed" /\ mainGo = seq[i].mainBefore

\* the text between the first open marker and the first close marker after it
FieldValue(text, tag) ==
    LET from == IndexOf(text, openTag(tag)) + Len(openTag(tag))
        to == MinOf({c \in Occurrences(text, closeTag(tag)) : c >= from})
    IN SubSeq(text, from + 1, to)

\* C7: the extractor returns the complete field value when both markers are
\* there, and nothing when one of them is missing.
C7_CompleteOrAbsent ==
    xPc \in {"extractXML", "getCommitMessage"} =>
        IF HasSection(xText, xTag)
        THEN xResult \in {FieldValue(xText, xTag), TrimStart(FieldValue(xText, xTag))}
        ELSE xResult = <<>>

\* the text is one section <name>v</name> with surrounding text free of the
\* markers of that name
OneSection(text, tag) ==
    /\ HasSection(text, tag)
    /\ Cardinality(Occurrences(text, openTag(tag))) = 1
    /\ Cardinality(Occurrences(text, closeTag(tag))) = 1

\* C8: extraction from a text that wraps v in the markers of a name returns v
\* without its leading whitespace, in getNewCode and in getCommitMessage.
C8_RoundTrip ==
    (xPc \in {"extractXML", "getCommitMessage"} /\ OneSection(xText, xTag)) =>
        xResult = TrimStart(FieldValue(xText, xTag))

\* C9: a main_test.go event observed while a sequence is in flight changes
\* nothing of the loop, and a sequence is started only by main or by a
\* main_test.go event observed while the flag is null.
C9_DroppedNotQueued ==
    [][ /\ (TestChangeObserved /\ runningTestPromise # 0) =>
              /\ started' = started
              /\ runningTestPromise' = runningTestPromise
              /\ \A i \in Seqs : seq'[i].pc = seq[i].pc
        /\ started' # started =>
              \/ started = 0
              \/ TestChangeObserved /\ runningTestPromise = 0 ]_vars
C9_Witness ==
    \E i \in Seqs :
        /\ seq[i].pc = "done" /\ seq[i].droppedEvent
        /\ started = i /\ runningTestPromise = 0 /\ pending = {}

\* C10: once a sequence is Done the flag is null until the next sequence
\* starts; a main_test.go event observed then starts a sequence, and that
\* sequence takes HEAD as it is then for its boundary.
C10_DoneThenIdle ==
    [][ /\ \A i \in Seqs :
              (seq'[i].pc = "done" /\ started' = i) => runningTestPromise' = 0
        /\ (TestChangeObserved /\ runningTestPromise = 0) =>
              /\ started' = started + 1
              /\ runningTestPromise' = started'
              /\ seq'[started'].pc = "revparse"
        /\ \A i \in Seqs :
              (seq[i].pc = "revparse" /\ seq'[i].pc = "readMain") =>
                  /\ seq'[i].gitRef = HeadId
                  /\ LogRange(seq'[i].gitRef) = <<>> ]_vars
C10_Witness ==
    /\ seq[1].pc = "done"
    /\ seq[2].pc = "readMain"
    /\ commits[Len(commits)].kind = "squash"
    /\ seq[2].gitRef = HeadId
\* C11: a failing test run never ends the sequence, and a failing git command
\* of a sequence, in Running or in Committing, leaves it failed: it does not
\* go on to Done.
C11_ErrorsTerminate ==
    \A i \in Seqs :
        /\ (seq[i].lastExit = 1 /\ seq[i].pc # "failed") => InFlight(i)
        /\ seq[i].swallowed => seq[i].pc = "failed"
\* C12 as claimed: every change of main_test.go made while a sequence is in
\* flight, also one made in Committing, has been run against when the
\* sequence is Done.
C12_EveryChangeTested ==
    \A i \in Seqs : seq[i].pc = "done" => seq[i].untested \in {"none", "tested"}

\* C12 as amended: a change of main_test.go made while the sequence is in
\* Running has been run against before the sequence goes to Committing.
C12_RunningChangeTested ==
    \A i \in Seqs : Squashing(i) => seq[i].untested # "running"
C12_Witness ==
    \E i \in Seqs :
        seq[i].pc = "done" /\ seq[i].droppedEvent /\ seq[i].untested = "tested"
InRunning(i) ==
    seq[i].pc \in {"readMain", "readTest", "test", "gitlog", "request", "consume",
                   "p0write", "p0commit"}

\* C13: test runs and patch-generation requests alternate: a failing run is
\* followed by one request before the next run, no request is made without a
\* failing run right before it, and the request carries the output of that
\* run and the log of the commits since the boundary.
C13_Alternation ==
    \A i \in Seqs :
        /\ seq[i].pc \in {"gitlog", "request"} =>
              /\ seq[i].lastExit = 1
              /\ seq[i].requests = seq[i].fails - 1
              /\ seq[i].errors = seq[i].runs
        /\ (InRunning(i) /\ seq[i].pc \notin {"gitlog", "request"}) =>
              seq[i].requests = seq[i].fails /\ seq[i].fails = seq[i].runs
        /\ (Squashing(i) /\ seq[i].runs > 0) =>
              seq[i].requests = seq[i].fails /\ seq[i].runs = seq[i].fails + 1
        /\ seq[i].pc \in {"consume", "p0write", "p0commit"} =>
              /\ seq[i].sent.errors = seq[i].runs
              /\ Len(LogIds(seq[i].gitRef)) = Len(seq[i].sent.gitLog) + seq[i].iterCommits
              /\ seq[i].sent.gitLog =
                     SubSeq(LogIds(seq[i].gitRef), 1, Len(seq[i].sent.gitLog))
C13_Witness ==
    \E i \in Seqs :
        /\ seq[i].pc = "consume" /\ seq[i].requests = 2
        /\ Len(seq[i].sent.gitLog) = 1
AttemptIds(hist) == {hist[k].id : k \in {n \in 1..Len(hist) : hist[n].kind = "attempt"}}

\* C14: a sequence is in Committing only after a test run of it exited 0, and
\* once it is there no step writes main.go or creates an attempt commit.
C14_CommittingAfterPass ==
    [][\A i \in Seqs :
           (Squashing(i) /\ seq[i].pc # "done") =>
               /\ seq[i].lastExit = 0
               /\ seq[i].runs = seq[i].fails + 1
               /\ mainGo' = mainGo
               /\ seq'[i].writes = seq[i].writes
               /\ seq'[i].attempts = seq[i].attempts
               /\ AttemptIds(commits') \subseteq AttemptIds(commits)]_vars
C14_Witness ==
    \E i \in Seqs :
        seq[i].pc = "done" /\ seq[i].resetDone /\ seq[i].writes > 0 /\ seq[i].attempts > 0
\* C15: when the log between the boundary and HEAD is empty at the start of
\* Committing, the sequence goes to Done with no summary request, no soft
\* reset and no commit, and HEAD stays where it was.
C15_EmptyLogSkips ==
    \A i \in Seqs :
        (seq[i].pc \in {"sqmsg", "sqreset", "done"} /\ ~seq[i].logNonEmpty) =>
            /\ seq[i].pc = "done"
            /\ seq[i].summaries = 0
            /\ ~seq[i].resetDone
            /\ (i = started => HeadId = seq[i].gitRef)
UnknownNext(i) ==
    /\ seq[i].pc = "consume"
    /\ seq[i].stream # <<>>
    /\ Head(seq[i].stream).name \notin Tags

ExactWrapper(text) ==
    /\ Len(text) >= Len(fenceOpen) + Len(fenceClose)
    /\ SubSeq(text, 1, Len(fenceOpen)) = fenceOpen
    /\ SubSeq(text, Len(text) - Len(fenceClose) + 1, Len(text)) = fenceClose
\* offsets <<o, c>> of an opener and of a closer that starts after its end
FencePairs(text) ==
    {oc \in Occurrences(text, fenceOpen) \X Occurrences(text, fenceClose) :
        oc[2] >= oc[1] + Len(fenceOpen)}

\* C17 as claimed: what is written is the inner text when the replacement
\* source is a fenced wrapper from its first to its last character, and the
\* replacement source itself in every other case.
C17_ExactWrapperOnly ==
    xPc = "stripFence" =>
        xResult = IF ExactWrapper(xText)
                  THEN SubSeq(xText, Len(fenceOpen) + 1, Len(xText) - Len(fenceClose))
                  ELSE xText

\* C17 as amended: when the replacement source holds an opener and, after
\* it, a closer, what is written is the text between the first opener and
\* the last closer, and the text around them is dropped; without such a pair
\* the replacement source is written as it is.
C17_FirstOpenerLastCloser ==
    xPc = "stripFence" =>
        IF FencePairs(xText) = {}
        THEN xResult = xText
        ELSE \E oc \in FencePairs(xText) :
                /\ \A pq \in FencePairs(xText) : oc[1] <= pq[1] /\ oc[2] >= pq[2]
                /\ xText = SubSeq(xText, 1, oc[1]) \o fenceOpen \o xResult
                              \o fenceClose
                              \o SubSeq(xText, oc[2] + Len(fenceClose) + 1, Len(xText))
C17_Witness ==
    /\ xPc = "stripFence"
    /\ FencePairs(xText) # {}
    /\ ~ExactWrapper(xText)
    /\ xResult = <<"X">>
SomeFailed == \E i \in Seqs : seq[i].pc = "failed"

\* C18: a sequence is in Committing only after a test run that exited 0, so
\* one whose test runs all fail never gets there; and when every call
\* returns, a sequence in flight whose calls raise no error comes to Done with
\* the flag cleared once a test run exits 0.
C18_LoopLiveness ==
    /\ [](\A i \in Seqs : (Squashing(i) /\ InFlight(i)) => seq[i].lastExit = 0)
    /\ (runningTestPromise # 0) ~> (runningTestPromise = 0 \/ SomeFailed)
C18_Witness ==
    \E i \in Seqs :
        /\ seq[i].pc = "done" /\ runningTestPromise = 0
        /\ seq[i].fails = MaxFails /\ seq[i].lastExit = 0
\* C19: the boundary of a sequence is HEAD as read at its start and stays the
\* same for the whole sequence; no step removes or rewrites the boundary or
\* a commit before it, so what earlier sequences left, their squash commits
\* included, stays in the history of HEAD.
C19_BoundaryKept ==
    [][\A i \in Seqs :
           /\ (seq[i].pc = "revparse" /\ InFlight(i)' /\ seq'[i].pc # "revparse") =>
                 seq'[i].gitRef = HeadId /\ commits' = commits
           /\ (InFlight(i) /\ seq[i].pc # "revparse") =>
                 /\ seq'[i].gitRef = seq[i].gitRef
                 /\ Len(commits') >= PosOf(seq[i].gitRef)
                 /\ SubSeq(commits', 1, PosOf(seq[i].gitRef))
                        = SubSeq(commits, 1, PosOf(seq[i].gitRef))
                 /\ (seq[i].pc = "sqreset" /\ seq'[i].pc = "done") =>
                       Len(commits') \in {PosOf(seq[i].gitRef), PosOf(seq[i].gitRef) + 1}
                 /\ (seq[i].pc \in {"gitlog", "sqlog"} /\ seq'[i].gitLog # <<>>) =>
                       seq'[i].gitLog = LogIds(seq[i].gitRef)]_vars
C19_Witness ==
    \E i \in Seqs :
        /\ seq[i].pc = "done" /\ seq[i].resetDone /\ ~seq[i].swallowed
        /\ Len(commits) = 3
        /\ commits[2].kind = "squash" /\ commits[3].kind = "squash"
\* C20: in an iteration main.go is written before the commit is made: once
\* the commit of an iteration exists, no code section of that iteration's
\* response is still to be applied, and the commit holds the main.go the
\* iteration wrote.
C20_WriteBeforeCommit ==
    \A i \in Seqs :
        (seq[i].pc = "consume" /\ seq[i].iterCommits > 0) =>
            /\ \A k \in 1..Len(seq[i].stream) : seq[i].stream[k].name # "code"
            /\ commits[Len(commits)].tree.main = mainGo
\* C21: the flag is non-null exactly when a sequence is executing: it is set
\* when a sequence starts and cleared when the sequence ends, in Done or by
\* an error thrown from one of its calls.
C21_FlagIffExecuting ==
    (runningTestPromise # 0) <=> (\E i \in Seqs : InFlight(i))

\* C22: Committing writes no file of the folder, and when it ends the tree
\* at HEAD is the tree that was at HEAD just before the soft reset, also
\* when the commit after the reset fails.
C22_SquashKeepsTree ==
    [][\A i \in Seqs :
           (Squashing(i) /\ InFlight(i)) =>
               /\ mainGo' = mainGo
               /\ (seq[i].pc = "sqreset" /\ seq'[i].pc = "done") =>
                     commits'[Len(commits')].tree = commits[Len(commits)].tree]_vars
====
